---- MODULE Spec2Model ----
(***************************************************************************)
(* The Company API of server/app.py (GET /companies, POST /companies,     *)
(* GET /companies/<int:id>) over the companies table of server/models.py, *)
(* together with the seed script server/seed.py that shares the SQLite    *)
(* database file.                                                          *)
(*                                                                         *)
(* The two GET handlers issue one SELECT and are one step each.            *)
(* Companies.post touches the database twice: the INSERT and COMMIT of     *)
(* db.session.commit(), then the SELECT by primary key that to_dict()      *)
(* triggers on the instance the commit expired.  Another connection can    *)
(* act between the two, so the handler is two steps, CompaniesPost and     *)
(* CompaniesPostReturn.  The seed script is two steps as well: the DELETE  *)
(* that opens its transaction and the add_all + commit that ends it.       *)
(***************************************************************************)
EXTENDS Integers, Sequences, FiniteSets, TLC

\* ------------------------------------------------------------------ bounds
MaxInFlight == 2     \* requests the server may be handling at once
MaxPosts == 2        \* inserts made through POST /companies in one run
MaxSeedRuns == 2     \* runs of the seed script in one run
MaxPathId == 2       \* numbers asked for in GET /companies/<id>, 0..MaxPathId

\* ------------------------------------------------------- program constants
SeedCount == 10      \* seed.py: for i in range(10)

\* ------------------------------------------------------------------ values
\* JSON / Python values are tagged records, so that any two are comparable.
None == [t |-> "null"]
Str(s) == [t |-> "str", v |-> s]
Array == [t |-> "array"]
Object(f) == [t |-> "object", fields |-> f]
Malformed == [t |-> "malformed"]

\* Field values a client posts: a string or an explicit null.
FieldValues == {None, Str("Acme")}

\* Every JSON object over the keys name and founder, each present or absent.
ObjectBodies ==
    {Object(f) : f \in UNION {[ks -> FieldValues] : ks \in SUBSET {"name", "founder"}}}

\* Request bodies: text that is no JSON, JSON that is no object, JSON objects.
Bodies == {Malformed, None, Array} \cup ObjectBodies

\* What Faker draws for one seeded row.
FakeTexts == {Str("Lorem ipsum.")}
FakeNames == {Str("John Smith")}
FakeDates == {0}
FakeRows == [name : FakeTexts, founder : FakeNames, founding_date : FakeDates]

\* ------------------------------------------------------------ entity model
\* One row of the companies table.
Company(id, name, founder, founding_date) ==
    [id |-> id, name |-> name, founder |-> founder, founding_date |-> founding_date]

\* A founding_date column without a default: the INSERT leaves it NULL.
server_default_broken(now) == None

\* server_default=db.func.now(): the column value when the INSERT gives none.
server_default(now) == [t |-> "datetime", v |-> now]

\* SerializerMixin renders a datetime as text; None stays None.
serialize_datetime(d) ==
    IF d = None THEN None ELSE Str(ToString(d.v))

\* SerializerMixin.to_dict: the four columns under their plain names.
to_dict(company) ==
    [id |-> company.id, name |-> company.name, founder |-> company.founder,
     founding_date |-> serialize_datetime(company.founding_date)]

\* ---------------------------------------------------------------- the store
RECURSIVE Query_all_distinct_name(_)
\* A listing that keeps one row per name.
Query_all_distinct_name(rows) ==
    IF rows = {} THEN <<>>
    ELSE LET low == CHOOSE r \in rows : \A q \in rows : r.id <= q.id
         IN <<low>> \o Query_all_distinct_name({q \in rows : q.name # low.name})

RECURSIVE Query_all(_)
\* Company.query.all(): no ORDER BY, SQLite scans the table in rowid order.
Query_all(rows) ==
    IF rows = {} THEN <<>>
    ELSE LET low == CHOOSE r \in rows : \A q \in rows : r.id <= q.id
         IN <<low>> \o Query_all(rows \ {low})

NoRow == [t |-> "no row"]

\* Company.query.first(): the first row of the scan, the filter forgotten.
Query_first(rows, id) ==
    IF rows = {} THEN NoRow ELSE CHOOSE r \in rows : \A q \in rows : r.id <= q.id

\* Company.query.filter_by(id=id).first(): the first match of the scan, or None.
Query_filter_by_id_first(rows, id) ==
    LET matches == {r \in rows : r.id = id}
    IN IF matches = {} THEN NoRow
       ELSE CHOOSE r \in matches : \A q \in matches : r.id <= q.id

\* A rowid that repeats the largest one in the table.
NextRowId_stale(rows) ==
    IF rows = {} THEN 1
    ELSE CHOOSE n \in {r.id : r \in rows} : \A r \in rows : r.id <= n

\* Company.id is an INTEGER PRIMARY KEY without AUTOINCREMENT: SQLite gives an
\* INSERT that names no id one more than the largest rowid in the table.
NextRowId(rows) ==
    IF rows = {} THEN 1
    ELSE 1 + CHOOSE n \in {r.id : r \in rows} : \A r \in rows : r.id <= n

\* An insert that replaces the rows of the same name, as a unique name would.
session_add_unique_name(rows, company) ==
    {r \in rows : r.name # company.name} \cup {company}

\* db.session.add: the instance is pending until the commit.  No column of
\* the table but the primary key is unique.
session_add(rows, company) == rows \cup {company}

\* A commit that raises after the row has been written.
session_commit_partial(rows, company, storage) ==
    [raised |-> storage # "ok", rows |-> session_add(rows, company)]

\* db.session.commit(): the pending INSERT becomes visible in one piece, or the
\* store rejects it, the commit raises and nothing is written.
session_commit(rows, company, storage) ==
    IF storage = "ok"
    THEN [raised |-> FALSE, rows |-> session_add(rows, company)]
    ELSE [raised |-> TRUE, rows |-> rows]

\* A DELETE that is committed on its own.
Query_delete_autocommit(rows) == [committed |-> {}, view |-> {}]

\* Company.query.delete() in the seed's session: the DELETE runs inside the
\* transaction the commit at the end of the script closes; until then the
\* other connections read the table as it was.
Query_delete(rows) == [committed |-> rows, view |-> {}]

RECURSIVE session_add_all(_, _)
\* db.session.add_all(companies): the rows are inserted in list order, each
\* taking the next rowid of the seed's view of the table.
session_add_all(rows, companies) ==
    IF companies = <<>> THEN rows
    ELSE LET c == Head(companies)
             row == Company(NextRowId(rows), c.name, c.founder,
                            [t |-> "datetime", v |-> c.founding_date])
         IN session_add_all(session_add(rows, row), Tail(companies))

\* -------------------------------------------------------------- the request
\* request.get_json(): the parsed body; text that is no JSON raises BadRequest.
get_json(body) ==
    IF body = Malformed
    THEN [raised |-> "BadRequest"]
    ELSE [raised |-> "", value |-> body]

\* data[key]: a missing key raises.
dict_getitem(data, key) ==
    IF data.t # "object" THEN [raised |-> "TypeError"]
    ELSE IF key \in DOMAIN data.fields
         THEN [raised |-> "", value |-> data.fields[key]]
         ELSE [raised |-> "KeyError"]

\* data.get(key): only a dict has it; a missing key gives None.
dict_get(data, key) ==
    IF data.t # "object"
    THEN [raised |-> "AttributeError"]
    ELSE [raised |-> "",
          value |-> IF key \in DOMAIN data.fields THEN data.fields[key] ELSE None]

\* Path segments of GET /companies/<segment>.
PathSegments == {ToString(n) : n \in 0..MaxPathId} \cup {"abc", "-1"}

\* The numbers a segment of the model can spell: up to the largest rowid the
\* table hands out, and the numbers asked for.
Numbers == 0..(SeedCount + MaxPosts + MaxPathId)

\* The <int:id> converter: a segment of digits only, read as a number.
int_converter(segment) ==
    IF \E n \in Numbers : ToString(n) = segment
    THEN [matched |-> TRUE, value |-> CHOOSE n \in Numbers : ToString(n) = segment]
    ELSE [matched |-> FALSE]

\* ---------------------------------------------------------------- responses
Response(body, status) == [body |-> body, status |-> status]
UnprocessableEntity == Response([error |-> "422 - Unprocessable Entity"], 422)
CompanyNotFound == Response([error |-> "404 - Company not found"], 404)
\* What the framework answers by itself.
BadRequest == Response([message |-> "Failed to decode JSON object"], 400)
RouteNotFound == Response([message |-> "The requested URL was not found on the server."], 404)

\* ----------------------------------------------------------------- handlers
RECURSIVE to_dict_each(_)
to_dict_each(companies) ==
    IF companies = <<>> THEN <<>>
    ELSE <<to_dict(Head(companies))>> \o to_dict_each(Tail(companies))

\* Companies.get
Companies_get(rows) == Response(to_dict_each(Query_all(rows)), 200)

\* CompanyByID.get behind its route
CompanyByID_get(rows, segment) ==
    LET id == int_converter(segment)
    IN IF ~id.matched
       THEN [dispatched |-> FALSE, resp |-> RouteNotFound]
       ELSE LET company == Query_filter_by_id_first(rows, id.value)
            IN [dispatched |-> TRUE,
                resp |-> IF company # NoRow
                         THEN Response(to_dict(company), 200)
                         ELSE CompanyNotFound]

\* Companies.post up to db.session.commit()
Companies_post(rows, body, storage, now) ==
    LET data == get_json(body)
    IN IF data.raised # ""
       THEN [at |-> "framework", resp |-> BadRequest, rows |-> rows]
       ELSE LET name == dict_get(data.value, "name")
                founder == dict_get(data.value, "founder")
            IN IF name.raised # "" \/ founder.raised # ""
               THEN [at |-> "except", resp |-> UnprocessableEntity, rows |-> rows]
               ELSE LET new_company == Company(NextRowId(rows), name.value,
                                               founder.value, server_default(now))
                        commit == session_commit(rows, new_company, storage)
                    IN IF commit.raised
                       THEN [at |-> "except", resp |-> UnprocessableEntity,
                             rows |-> commit.rows]
                       ELSE [at |-> "committed", new_company |-> new_company,
                             rows |-> commit.rows]

\* Companies.post after the commit: to_dict() reloads the expired instance by
\* its primary key; a row that is gone raises inside the try.
Companies_post_return(rows, id) ==
    LET new_company == Query_filter_by_id_first(rows, id)
    IN IF new_company = NoRow
       THEN UnprocessableEntity
       ELSE Response(to_dict(new_company), 201)

\* -------------------------------------------------------------------- state
VARIABLES
    store,      \* the committed rows of the companies table
    seedpc,     \* the seed script: "idle", or "deleted" inside its transaction
    seedView,   \* the table as the seed's open transaction sees it
    inflight,   \* the POST requests between their commit and their response,
                \* each with the instance its db.session holds
    clock,      \* the database clock, which moves on with every insert
    last,       \* what the latest step did: its input and its answer, if any
    log,        \* history: the ids the table handed out, insert by insert
    seedRuns    \* history: the seed runs committed so far

vars == <<store, seedpc, seedView, inflight, clock, last, log, seedRuns>>

Init ==
    /\ store = {}
    /\ seedpc = "idle"
    /\ seedView = {}
    /\ inflight = {}
    /\ clock = 1
    /\ last = [op |-> "none"]
    /\ log = <<>>
    /\ seedRuns = 0

\* The inserts POST /companies made so far.
ApiInserts == Cardinality({i \in DOMAIN log : log[i].by = "api"})

\* The server takes a request while it has a worker to spare.
Accepting == Cardinality(inflight) < MaxInFlight

\* SQLite has one writer at a time: while the seed's transaction is open, an
\* INSERT of another connection waits and then fails with "database is locked".
\* The store may also reject a write for reasons of its own.
StorageOutcomes == IF seedpc = "idle" THEN {"ok", "error"} ELSE {"error"}

\* GET /companies
CompaniesGet ==
    /\ Accepting
    /\ last' = [op |-> "list", resp |-> Companies_get(store)]
    /\ UNCHANGED <<store, seedpc, seedView, inflight, clock, log, seedRuns>>

\* GET /companies/<segment>
CompanyByIDGet ==
    /\ Accepting
    /\ \E segment \in PathSegments :
         \E r \in {CompanyByID_get(store, segment)} :
            last' = [op |-> "get", segment |-> segment,
                     dispatched |-> r.dispatched, resp |-> r.resp]
    /\ UNCHANGED <<store, seedpc, seedView, inflight, clock, log, seedRuns>>

\* POST /companies, from the request to the commit or to the error response
CompaniesPost ==
    /\ Accepting
    /\ \E body \in Bodies, storage \in StorageOutcomes :
         \E r \in {Companies_post(store, body, storage, clock)} :
            /\ store' = r.rows
            /\ IF r.at = "committed"
               THEN /\ ApiInserts < MaxPosts
                    /\ inflight' = inflight \cup
                                     {[id |-> r.new_company.id,
                                       name |-> r.new_company.name,
                                       founder |-> r.new_company.founder,
                                       serial |-> Len(log) + 1]}
                    /\ clock' = clock + 1
                    /\ log' = Append(log, [ids |-> {r.new_company.id}, by |-> "api",
                                           epoch |-> seedRuns, status |-> 0])
                    /\ last' = [op |-> "commit", body |-> body]
               ELSE /\ last' = [op |-> "post", body |-> body,
                                at |-> r.at, storage |-> storage, resp |-> r.resp]
                    /\ UNCHANGED <<inflight, clock, log>>
    /\ UNCHANGED <<seedpc, seedView, seedRuns>>

\* POST /companies, from the commit to the response
CompaniesPostReturn ==
    /\ \E s \in inflight :
         \E resp \in {Companies_post_return(store, s.id)} :
            /\ last' = [op |-> "post", at |-> "return", session |-> s, resp |-> resp]
            /\ log' = [log EXCEPT ![s.serial].status = resp.status]
            /\ inflight' = inflight \ {s}
    /\ UNCHANGED <<store, seedpc, seedView, clock, seedRuns>>

\* seed.py, Company.query.delete()
SeedDelete ==
    /\ seedpc = "idle"
    /\ seedRuns < MaxSeedRuns
    /\ \E d \in {Query_delete(store)} :
         /\ store' = d.committed
         /\ seedView' = d.view
    /\ seedpc' = "deleted"
    /\ last' = [op |-> "delete"]
    /\ UNCHANGED <<inflight, clock, log, seedRuns>>

\* seed.py, the loop, db.session.add_all(companies) and db.session.commit()
SeedCommit ==
    /\ seedpc = "deleted"
    /\ \E companies \in [1..SeedCount -> FakeRows] :
         \E rows \in {session_add_all(seedView, companies)} :
            /\ store' = rows
            /\ last' = [op |-> "seed", companies |-> companies]
            /\ log' = Append(log, [ids |-> {r.id : r \in rows \ seedView},
                                   by |-> "seed", epoch |-> seedRuns + 1,
                                   status |-> 0])
    /\ seedView' = {}
    /\ seedpc' = "idle"
    /\ seedRuns' = seedRuns + 1
    /\ UNCHANGED <<inflight, clock>>

\* The HTTP API alone.
NextApi ==
    \/ CompaniesGet
    \/ CompanyByIDGet
    \/ CompaniesPost
    \/ CompaniesPostReturn

SpecApi == Init /\ [][NextApi]_vars

\* The HTTP API and the seed script on the same database.
Next ==
    \/ CompaniesGet
    \/ CompanyByIDGet
    \/ CompaniesPost
    \/ CompaniesPostReturn
    \/ SeedDelete
    \/ SeedCommit

Spec == Init /\ [][Next]_vars

\* ------------------------------------------------------------------- claims
\* What a JSON object carries under a key, as Python's None when it is absent.
Posted(body, key) ==
    IF key \in DOMAIN body.fields THEN body.fields[key] ELSE None

\* The wire representation of a row, field by field.
Represents(body, r) ==
    /\ body.id = r.id
    /\ body.name = r.name
    /\ body.founder = r.founder
    /\ body.founding_date = Str(ToString(r.founding_date.v))

\* C1: every POST /companies that fails, for whatever reason, answers exactly
\* ({"error": "422 - Unprocessable Entity"}, 422).
C1_CreateFailureIs422 ==
    (last.op = "post" /\ last.resp.status # 201) => last.resp = UnprocessableEntity

\* C2: a POST that answers 201 with id i, followed by GET /companies/i, gives
\* 200 with the body the POST returned, whose name and founder are the posted
\* values and whose founding_date is not null.
C2_RoundTrip ==
    [][\A s \in inflight \ inflight' :
         last'.resp.status = 201 =>
            LET created == last'.resp.body
                fetched == CompanyByID_get(store', ToString(created.id))
            IN /\ created.id = s.id
               /\ fetched.dispatched
               /\ fetched.resp.status = 200
               /\ fetched.resp.body = created
               /\ created.name = s.name
               /\ created.founder = s.founder
               /\ created.founding_date # None
               /\ created.founding_date.t = "str"]_vars

C2_Witness ==
    /\ last.op = "post"
    /\ last.resp.status = 201
    /\ last.resp.body.name = Str("Acme")
    /\ last.resp.body.founder = None
    /\ last.resp.body.id = 2

\* C3 as stated: no id is ever handed to a second Company, whatever happens
\* between the inserts, a seed run included.
C3_IdAssignedOnce ==
    /\ \A i, j \in DOMAIN log : i # j => log[i].ids \cap log[j].ids = {}
    /\ \A i \in DOMAIN log : log[i].by = "seed" => Cardinality(log[i].ids) = SeedCount

\* C3 as amended: the ids handed out between two seed runs (and before the
\* first) are pairwise distinct, and no two rows of the table share an id.
C3_IdsDistinctBetweenSeedRuns ==
    /\ \A i, j \in DOMAIN log :
         (i # j /\ log[i].epoch = log[j].epoch) => log[i].ids \cap log[j].ids = {}
    /\ \A i \in DOMAIN log : log[i].by = "seed" => Cardinality(log[i].ids) = SeedCount
    /\ \A r, q \in store : r.id = q.id => r = q

C3_Witness ==
    \E i, j \in DOMAIN log :
        /\ i < j
        /\ log[i].by = "api" /\ log[j].by = "api"
        /\ log[i].epoch = 1 /\ log[j].epoch = 1
        /\ log[i].status = 201 /\ log[j].status = 201

C5_ListAll ==
    last.op = "list" =>
        /\ last.resp.status = 200
        /\ Len(last.resp.body) = Cardinality(store)
        /\ \A r \in store :
             \E i \in DOMAIN last.resp.body : Represents(last.resp.body[i], r)
        /\ \A i \in DOMAIN last.resp.body :
             \E r \in store : Represents(last.resp.body[i], r)
        /\ store = {} => last.resp.body = <<>>

C5_Witness ==
    /\ last.op = "list"
    /\ Len(last.resp.body) = SeedCount + 1

\* C6 as stated: every POST /companies whose body is a JSON object answers 201.
C6_ObjectBodyAlways201 ==
    (last.op = "post" /\ last.at # "return" /\ last.body.t = "object") =>
        last.resp.status = 201

\* C6 as amended: a POST /companies whose body is a JSON object answers 201,
\* whether or not name and founder are present, unless the store rejects the
\* write.  An absent field is stored and returned as null, exactly one row
\* with the posted name and founder is added, and the only failure is the
\* store's: 422 with nothing added.
C6_ObjectBodyCreated ==
    [][/\ \A s \in inflight' \ inflight :
            \E r \in store' :
               /\ r \notin store
               /\ store' = store \cup {r}
               /\ last'.body.t = "object"
               /\ r.id = s.id
               /\ r.name = Posted(last'.body, "name")
               /\ r.founder = Posted(last'.body, "founder")
               /\ s.name = r.name
               /\ s.founder = r.founder
       /\ \A s \in inflight \ inflight' :
            /\ last'.resp.status = 201
            /\ last'.resp.body.id = s.id
            /\ last'.resp.body.name = s.name
            /\ last'.resp.body.founder = s.founder
       /\ (last'.op = "post" /\ last'.at # "return" /\ last'.body.t = "object") =>
            /\ last'.storage = "error"
            /\ last'.resp = UnprocessableEntity
            /\ store' = store]_vars

C6_Witness ==
    /\ last.op = "commit"
    /\ DOMAIN last.body.fields = {"founder"}
    /\ \E r \in store : r.name = None /\ r.founder = Str("Acme")

\* C7: through the HTTP API the table only grows.  Every row stays as it was
\* created, both GETs leave the table alone, and the one step that changes it
\* is the commit of a POST that goes on to answer 201, which adds one row.
C7_StoreOnlyGrows ==
    /\ [][/\ store \subseteq store'
          /\ store' # store =>
               /\ Cardinality(store' \ store) = 1
               /\ Cardinality(inflight' \ inflight) = 1
               /\ last'.op = "commit"
          /\ last'.op \in {"list", "get"} => store' = store
          /\ \A s \in inflight \ inflight' : last'.resp.status = 201]_vars
    /\ [](\A id \in {r.id : r \in store} : Cardinality({r \in store : r.id = id}) = 1)

C7_Witness ==
    /\ Cardinality(store) = 2
    /\ last.op = "get"
    /\ last.resp.status = 200
    /\ \A r \in store : r.name = Str("Acme")

C9_ConcurrentCreatesSerialized ==
    /\ \A i \in DOMAIN log : log[i].ids = {i}
    /\ {r.id : r \in store} = 1..Len(log)
    /\ Cardinality(store) = Len(log)
    /\ \A s, t \in inflight : s # t => s.id # t.id
    /\ \A s \in inflight :
         \E r \in store : r.id = s.id /\ r.name = s.name /\ r.founder = s.founder
    /\ (last.op = "post" /\ last.resp.status = 201) =>
         \E r \in store :
            /\ Represents(last.resp.body, r)
            /\ r.id = last.session.id
            /\ r.name = last.session.name
            /\ r.founder = last.session.founder
    /\ inflight = {} =>
         Cardinality({i \in DOMAIN log : log[i].status = 201}) = Cardinality(store)

C9_Witness ==
    \E s, t \in inflight : s.name # t.name

\* C10: the seed replaces the table in one transaction.  While it runs the
\* other connections read the table as it was when the seed began; when it
\* commits, the table is exactly the SeedCount rows it generated.
C10_SeedReplacesAtomically ==
    [][/\ seedpc' = "deleted" => store' = store
       /\ (seedpc' = "deleted" /\ last'.op = "list") =>
             Len(last'.resp.body) = Cardinality(store)
       /\ (seedpc = "deleted" /\ seedpc' = "idle") =>
             /\ Cardinality(store') = SeedCount
             /\ \A i \in 1..SeedCount :
                  \E r \in store' :
                     /\ r.id = i
                     /\ r.name = last'.companies[i].name
                     /\ r.founder = last'.companies[i].founder
                     /\ r.founding_date.v = last'.companies[i].founding_date]_vars

C10_Witness ==
    /\ last.op = "seed"
    /\ ApiInserts = 2
    /\ Cardinality(store) = SeedCount

====
